---- MODULE Spec2Model ----
(***************************************************************************)
(* A model of init_unlock.py: the NEXUSUnlockValidator class and main().   *)
(*                                                                         *)
(* The server holds the paths that answer otherwise than the all-passing   *)
(* baseline, fixed for a behaviour.  Python values (JSON field values, the *)
(* `passed` argument of log_test, the return value of a category routine)  *)
(* are tagged records,                                                     *)
(* so that the truthiness rules, `x and y`, dict.get with a default, `>`   *)
(* and `in` can be computed as Python computes them, TypeError and         *)
(* AttributeError included.  Console output, timestamps and the measured   *)
(* duration are not modelled.  Strings are sequences of pieces, so that    *)
(* f-strings are concatenations and the substring test `fp in fingerprint` *)
(* is a search for a contiguous subsequence.                               *)
(***************************************************************************)
EXTENDS Integers, Sequences, FiniteSets, TLC

VARIABLES
    server,          \* the mocked server: the routes it was given, path -> response
    caller,          \* "main" (the script) or "client" (a caller of the class)
    pc,              \* position of the program
    test_results,    \* self.test_results
    results,         \* run_comprehensive_validation's `results` dict
    overall_success, \* run_comprehensive_validation's `overall_success`
    raised,          \* the category names whose routine raised in this call
    reports,         \* the reports returned so far, in order
    caught,          \* the exception main's handlers caught, "" for none
    file_written,    \* unlock_validation_report.json was written
    exit_code        \* the process exit code, read once pc = "exited"

vars == <<server, caller, pc, test_results, results, overall_success, raised,
          reports, caught, file_written, exit_code>>

-----------------------------------------------------------------------------
(* Bounds *)

\* How many paths of the mocked server differ from the all-good baseline.
MaxDeviations == 1

\* How many times a client calls run_comprehensive_validation on one instance.
MaxRuns == 2

-----------------------------------------------------------------------------
(* Python values *)

Val(t, b, n, s) == [t |-> t, b |-> b, n |-> n, s |-> s]

Absent == Val("absent", FALSE, 0, <<>>)

PyNone == Val("none", FALSE, 0, <<>>)

PyBool(x) == Val("bool", x, 0, <<>>)

PyInt(k) == Val("int", FALSE, k, <<>>)

PyStr(pieces) == Val("str", FALSE, 0, pieces)

\* A list of k strings, none of them a fingerprint literal.
PyList(k) == Val("list", FALSE, k, <<>>)

PyTrue == PyBool(TRUE)

PyFalse == PyBool(FALSE)

\* bool(v)
Truthy(v) ==
    CASE v.t = "bool" -> v.b
      [] v.t = "int"  -> v.n # 0
      [] v.t = "str"  -> v.s # <<>>
      [] v.t = "list" -> v.n > 0
      [] OTHER        -> FALSE

\* a and b
PyAnd(a, b) == IF Truthy(a) THEN b ELSE a

\* v > k raises TypeError unless v is a number (a bool is the number 0 or 1).
IsNumber(v) == v.t \in {"int", "bool"}

NumberOf(v) == IF v.t = "bool" THEN (IF v.b THEN 1 ELSE 0) ELSE v.n

\* len(v) raises TypeError unless v is sized; only len(v) > 0 is used.
IsSized(v) == v.t \in {"str", "list"}

PyLen(v) == IF v.t = "str" THEN Len(v.s) ELSE v.n

\* sub in s, for strings
Contains(sub, s) ==
    \E i \in 1..(Len(s) - Len(sub) + 1) : SubSeq(s, i, i + Len(sub) - 1) = sub

\* str(v), as pieces
Fmt(v) ==
    CASE v.t = "bool" -> <<IF v.b THEN "True" ELSE "False">>
      [] v.t = "int"  -> <<ToString(v.n)>>
      [] v.t = "str"  -> v.s
      [] v.t = "list" -> <<"[...]">>
      [] OTHER        -> <<"None">>

-----------------------------------------------------------------------------
(* JSON bodies and responses *)

Fields ==
    {"isMemoryAware", "fingerprintLock", "isActive", "optimizationCycles",
     "currentEfficiency", "overallHealth", "securityStatus", "totalDataPoints",
     "activeSources", "other"}

NoFields == [k \in {} |-> Absent]

\* t: "notjson" (response.json() raises), "none" (JSON null), "list" (of n
\* items) or "dict" (f gives the value of each key the object has).
Body(t, n, f) == [t |-> t, n |-> n, f |-> f]

\* The object `f` with key k set to v; setting Absent sets nothing.
With(f, k, v) == IF v = Absent THEN f ELSE (k :> v) @@ f

NotJson == Body("notjson", 0, NoFields)

NoneBody == Body("none", 0, NoFields)

ListBody(n) == Body("list", n, NoFields)

EmptyObj == Body("dict", 0, NoFields)

Obj1(k1, v1) == Body("dict", 0, With(NoFields, k1, v1))

Obj2(k1, v1, k2, v2) == Body("dict", 0, With(With(NoFields, k1, v1), k2, v2))

Obj3(k1, v1, k2, v2, k3, v3) ==
    Body("dict", 0, With(With(With(NoFields, k1, v1), k2, v2), k3, v3))

\* bool(data)
BodyTruthy(d) ==
    CASE d.t = "dict" -> DOMAIN d.f # {}
      [] d.t = "list" -> d.n > 0
      [] OTHER        -> FALSE

\* data.get(key, default), for a dict
get(d, key, default) == IF key \in DOMAIN d.f THEN d.f[key] ELSE default

Responded(status, body) ==
    [kind |-> "resp", status_code |-> status, body |-> body, error |-> ""]

\* requests.get raises (timeout, connection refused, DNS failure).
TransportError(text) ==
    [kind |-> "exc", status_code |-> 0, body |-> NotJson, error |-> text]

-----------------------------------------------------------------------------
(* The literals of NEXUSUnlockValidator *)

\* self.fingerprint_lock, "WATSON_COMMAND_READY"
fingerprint_lock == <<"WATSON", "_COMMAND", "_READY">>

\* The second accepted literal, "WATSON_FINAL_INFINITY_PATCH_2025_06_05"
FinalPatchFingerprint ==
    <<"WATSON", "_FINAL", "_INFINITY", "_PATCH", "_2025", "_06", "_05">>

expected_fingerprints == {fingerprint_lock, FinalPatchFingerprint}

modules ==
    <<"/api/dashboard/stats",
      "/api/dashboard/activity",
      "/api/dashboard/learning-progress",
      "/api/quantum/knowledge-graph",
      "/api/market/summary",
      "/api/market/alerts",
      "/api/research/metrics",
      "/api/research/targets",
      "/api/automation/metrics",
      "/api/kaizen/metrics",
      "/api/infinity/health",
      "/api/infinity/modules",
      "/api/watson/state",
      "/api/watson/visual-state">>

-----------------------------------------------------------------------------
(* The mocked server *)

StateUrl == "/api/watson/state"

MetricsUrl == "/api/kaizen/metrics"

HealthUrl == "/api/infinity/health"

SummaryUrl == "/api/market/summary"

Paths == {modules[i] : i \in DOMAIN modules} \cup {"/api/watson/history", "/"}

\* The all-good answers: every path answers 200 with a JSON object that passes
\* every check made on it.
Baseline(p) ==
    CASE p = StateUrl ->
           Responded(200, Obj2("isMemoryAware", PyTrue,
                               "fingerprintLock", PyStr(fingerprint_lock)))
      [] p = MetricsUrl ->
           Responded(200, Obj3("isActive", PyTrue, "optimizationCycles", PyInt(5),
                               "currentEfficiency", PyInt(95)))
      [] p = HealthUrl ->
           Responded(200, Obj2("overallHealth", PyInt(95),
                               "securityStatus", PyStr(<<"excellent">>)))
      [] p = SummaryUrl ->
           Responded(200, Obj2("totalDataPoints", PyInt(5), "activeSources", PyList(1)))
      [] OTHER -> Responded(200, Obj1("other", PyInt(1)))

\* A server with no route of its own answers every path as the baseline.
NoRoutes == [p \in {} |-> Baseline(p)]

\* What the server answers to GET p.
Answer(p) == IF p \in DOMAIN server THEN server[p] ELSE Baseline(p)

\* One deviation from the baseline: path p answers r instead (key = ""), or
\* the object path p answers has key `key` set to val, removed if val is
\* Absent.
Replace(p, r) == [path |-> p, key |-> "", val |-> Absent, resp |-> r]

SetKey(p, key, val) == [path |-> p, key |-> key, val |-> val, resp |-> Baseline(p)]

\* What any path may answer instead: a transport error, another status, a 200
\* whose body is no JSON (an HTML page).
AnyPathResponses ==
    {TransportError("ConnectionError"), Responded(404, NotJson), Responded(200, NotJson)}

\* What a path whose JSON is read may answer instead: JSON that is no object,
\* an empty object, an object without the checked keys.
AnyJsonResponses ==
    {Responded(200, NoneBody), Responded(200, ListBody(1)), Responded(200, EmptyObj),
     Responded(200, Obj1("other", PyInt(1)))}

KeyDeviations ==
    {SetKey(StateUrl, "isMemoryAware", v) :
        v \in {Absent, PyFalse, PyStr(<<"yes">>), PyInt(0)}}
    \cup
    {SetKey(StateUrl, "fingerprintLock", v) :
        v \in {Absent, PyStr(FinalPatchFingerprint),
               PyStr(<<"X_">> \o fingerprint_lock \o <<"_Y">>),
               PyStr(<<"WATSON", "_COMMAND">>), PyInt(5)}}
    \cup
    {SetKey(MetricsUrl, "isActive", v) : v \in {Absent, PyFalse}}
    \cup
    {SetKey(MetricsUrl, "optimizationCycles", v) : v \in {Absent, PyInt(0), PyStr(<<"5">>)}}
    \cup
    {SetKey(MetricsUrl, "currentEfficiency", v) : v \in {Absent, PyInt(90)}}
    \cup
    {SetKey(HealthUrl, "overallHealth", v) : v \in {Absent, PyInt(90), PyStr(<<"95">>)}}
    \cup
    {SetKey(HealthUrl, "securityStatus", v) :
        v \in {Absent, PyStr(<<"good">>), PyStr(<<"poor">>)}}
    \cup
    {SetKey(SummaryUrl, "totalDataPoints", v) : v \in {Absent, PyInt(0), PyStr(<<"5">>)}}
    \cup
    {SetKey(SummaryUrl, "activeSources", v) : v \in {Absent, PyList(0), PyInt(3)}}

Deviations ==
    {Replace(p, r) : p \in Paths, r \in AnyPathResponses}
    \cup
    {Replace(p, r) : p \in {StateUrl, MetricsUrl, HealthUrl, SummaryUrl},
                     r \in AnyJsonResponses}
    \cup
    KeyDeviations

\* The subsets of S of at most k elements.
RECURSIVE SubsetsUpTo(_, _)
SubsetsUpTo(S, k) ==
    IF k = 0 \/ S = {} THEN {{}}
    ELSE LET x == CHOOSE y \in S : TRUE IN
         SubsetsUpTo(S \ {x}, k) \cup {E \cup {x} : E \in SubsetsUpTo(S \ {x}, k - 1)}

\* No two deviations of E change the same thing: a path is replaced once, or
\* some of its keys are set, each once.
Compatible(E) ==
    \A d, e \in E :
        (d # e /\ d.path = e.path) => (d.key # "" /\ e.key # "" /\ d.key # e.key)

\* The object f with key k set to v, removed if v is Absent.
EditKey(f, k, v) ==
    IF v = Absent THEN [j \in DOMAIN f \ {k} |-> f[j]] ELSE (k :> v) @@ f

RECURSIVE EditKeys(_, _)
EditKeys(f, E) ==
    IF E = {} THEN f
    ELSE LET e == CHOOSE d \in E : TRUE IN EditKeys(EditKey(f, e.key, e.val), E \ {e})

\* The routes of the server that deviates from the baseline by E.
Routes(E) ==
    [p \in {e.path : e \in E} |->
        LET mine == {e \in E : e.path = p} IN
        IF \E e \in mine : e.key = ""
        THEN (CHOOSE e \in mine : e.key = "").resp
        ELSE Responded(200, Body("dict", 0, EditKeys(Baseline(p).body.f, mine)))]

\* The servers of the model: at most MaxDeviations deviations.
Servers == {Routes(E) : E \in {D \in SubsetsUpTo(Deviations, MaxDeviations) : Compatible(D)}}

\* The servers of the module-access sweep: any set of the 14 paths fails (the
\* kind of failure depends on the path), the others answer as the baseline.
SweepFailure(p) ==
    CASE p \in {"/api/dashboard/stats", "/api/market/summary", "/api/research/targets",
                "/api/infinity/health", "/api/watson/state"} -> Responded(404, NotJson)
      [] p \in {"/api/dashboard/activity", "/api/market/alerts", "/api/automation/metrics",
                "/api/infinity/modules", "/api/watson/visual-state"} ->
           TransportError("ConnectionError")
      [] OTHER -> Responded(200, NotJson)

SweepServers ==
    {[p \in F |-> SweepFailure(p)] : F \in SUBSET {modules[i] : i \in DOMAIN modules}}

-----------------------------------------------------------------------------
(* NEXUSUnlockValidator *)

\* One entry of self.test_results (the timestamp is not modelled).
TestResult(test_name, passed, details) ==
    [test |-> test_name,
     status |-> IF Truthy(passed) THEN "PASS" ELSE "FAIL",
     passed |-> passed,
     details |-> details]

log_test(log, test_name, passed, details) ==
    Append(log, TestResult(test_name, passed, details))

\* The except branch of test_api_endpoint: no status_code key.
EndpointFailure(text) ==
    [raises |-> FALSE, success |-> FALSE, has_status |-> FALSE, status_code |-> 0,
     has_error |-> TRUE, error |-> text, data |-> NoneBody]

\* An exception that leaves test_api_endpoint (none does: see the except).
EndpointRaises(text) ==
    [raises |-> TRUE, success |-> FALSE, has_status |-> FALSE, status_code |-> 0,
     has_error |-> TRUE, error |-> text, data |-> NoneBody]

\* A faulty variant of test_api_endpoint: only a timeout is caught.
test_api_endpoint_CatchTimeoutOnly(endpoint, expected_status) ==
    LET response == Answer(endpoint) IN
    IF response.kind = "exc"
    THEN IF response.error = "ReadTimeout"
         THEN EndpointFailure(response.error)
         ELSE EndpointRaises(response.error)
    ELSE IF response.status_code = 200 /\ response.body.t = "notjson"
    THEN EndpointFailure("JSONDecodeError")
    ELSE [raises |-> FALSE,
          success |-> response.status_code = expected_status,
          has_status |-> TRUE, status_code |-> response.status_code,
          has_error |-> FALSE, error |-> "",
          data |-> IF response.status_code = 200 THEN response.body ELSE NoneBody]

test_api_endpoint(endpoint, expected_status) ==
    LET response == Answer(endpoint) IN
    IF response.kind = "exc"
    THEN EndpointFailure(response.error)
    ELSE IF response.status_code = 200 /\ response.body.t = "notjson"
    THEN EndpointFailure("JSONDecodeError")
    ELSE [raises |-> FALSE,
          success |-> response.status_code = expected_status,
          has_status |-> TRUE, status_code |-> response.status_code,
          has_error |-> FALSE, error |-> "",
          data |-> IF response.status_code = 200 THEN response.body ELSE NoneBody]

\* How a category routine ends: it returns ret or raises exc, having logged
\* `log` and sent the GETs `calls`.
Return(ret, log, calls) ==
    [raises |-> FALSE, exc |-> "", ret |-> ret, log |-> log, calls |-> calls]

Raise(exc, log, calls) ==
    [raises |-> TRUE, exc |-> exc, ret |-> PyNone, log |-> log, calls |-> calls]

\* A faulty variant of the threshold: 11 of 14 is let through.
RateAtLeast80_Lenient(passed_count, n) == (passed_count + 1) * 5 >= 4 * n

\* passed_count / len(modules) >= 0.8, as the exact comparison of the
\* quotient with 4/5 (no quotient k/14 is within rounding of 0.8).
RateAtLeast80(passed_count, n) == passed_count * 5 >= 4 * n

\* The for loop of validate_dashboard_modules from module i on.
RECURSIVE DashboardLoop(_, _, _, _)
DashboardLoop(i, passed_count, log, calls) ==
    IF i > Len(modules)
    THEN LET ok == RateAtLeast80(passed_count, Len(modules)) IN
         Return(PyBool(ok),
                log_test(log, <<"Dashboard Module Access">>, PyBool(ok),
                         <<ToString(passed_count), "/", ToString(Len(modules)),
                           " modules accessible">>),
                calls)
    ELSE LET module == modules[i]
             result == test_api_endpoint(module, 200)
             sent   == Append(calls, module)
         IN IF result.raises
            THEN Raise(result.error, log, sent)
            ELSE IF result.success
            THEN DashboardLoop(i + 1, passed_count + 1,
                     log_test(log, <<"Module Access: ", module>>, PyTrue, <<>>),
                     sent)
            ELSE DashboardLoop(i + 1, passed_count,
                     log_test(log, <<"Module Access: ", module>>, PyFalse,
                              <<"Status: ",
                                IF result.has_status
                                THEN ToString(result.status_code)
                                ELSE "Error">>),
                     sent)

validate_dashboard_modules == DashboardLoop(1, 0, <<>>, <<>>)

\* fp in fingerprint raises TypeError unless fingerprint is a str or a
\* container.
validate_watson_command_engine ==
    LET state_result == test_api_endpoint("/api/watson/state", 200)
        c1 == <<"/api/watson/state">>
    IN
    IF state_result.raises THEN Raise(state_result.error, <<>>, c1)
    ELSE IF ~state_result.success
    THEN Return(PyFalse,
                log_test(<<>>, <<"Watson State Access">>, PyFalse,
                         <<"Cannot access Watson state">>),
                c1)
    ELSE
    LET state_data == state_result.data IN
    IF state_data.t # "dict"
    THEN Raise("AttributeError", <<>>, c1)
    ELSE
    LET memory_aware == get(state_data, "isMemoryAware", PyFalse)
        l1 == log_test(<<>>, <<"Watson Memory Awareness">>, memory_aware,
                       <<"Memory aware: ">> \o Fmt(memory_aware))
        fingerprint == get(state_data, "fingerprintLock", PyStr(<<>>))
    IN
    IF ~IsSized(fingerprint)
    THEN Raise("TypeError", l1, c1)
    ELSE
    LET fingerprint_match ==
            /\ fingerprint.t = "str"
            /\ \E fp \in expected_fingerprints : Contains(fp, fingerprint.s)
        l2 == log_test(l1, <<"Watson Fingerprint Lock">>, PyBool(fingerprint_match),
                       <<"System fingerprint: ">> \o Fmt(fingerprint))
        visual_result == test_api_endpoint("/api/watson/visual-state", 200)
        c2 == Append(c1, "/api/watson/visual-state")
    IN
    IF visual_result.raises THEN Raise(visual_result.error, l2, c2)
    ELSE
    LET visual_accessible == visual_result.success
        l3 == log_test(l2, <<"Watson Visual State">>, PyBool(visual_accessible), <<>>)
        history_result == test_api_endpoint("/api/watson/history", 200)
        c3 == Append(c2, "/api/watson/history")
    IN
    IF history_result.raises THEN Raise(history_result.error, l3, c3)
    ELSE
    LET history_accessible == history_result.success
        l4 == log_test(l3, <<"Watson Command History">>, PyBool(history_accessible), <<>>)
    IN
    Return(PyAnd(memory_aware,
                 PyAnd(PyBool(fingerprint_match),
                       PyAnd(PyBool(visual_accessible), PyBool(history_accessible)))),
           l4, c3)

validate_kaizen_agent ==
    LET metrics_result == test_api_endpoint("/api/kaizen/metrics", 200)
        c1 == <<"/api/kaizen/metrics">>
    IN
    IF metrics_result.raises THEN Raise(metrics_result.error, <<>>, c1)
    ELSE IF ~metrics_result.success
    THEN Return(PyFalse,
                log_test(<<>>, <<"Kaizen Metrics Access">>, PyFalse,
                         <<"Cannot access Kaizen metrics">>),
                c1)
    ELSE
    LET metrics_data == metrics_result.data IN
    IF metrics_data.t # "dict"
    THEN Raise("AttributeError", <<>>, c1)
    ELSE
    LET is_active == get(metrics_data, "isActive", PyFalse)
        l1 == log_test(<<>>, <<"Kaizen Agent Active">>, is_active, <<>>)
        cycles == get(metrics_data, "optimizationCycles", PyInt(0))
    IN
    IF ~IsNumber(cycles)
    THEN Raise("TypeError", l1, c1)
    ELSE
    LET cycles_running == NumberOf(cycles) > 0
        l2 == log_test(l1, <<"Kaizen Optimization Cycles">>, PyBool(cycles_running),
                       <<"Cycles completed: ">> \o Fmt(cycles))
        efficiency == get(metrics_data, "currentEfficiency", PyInt(0))
    IN
    IF ~IsNumber(efficiency)
    THEN Raise("TypeError", l2, c1)
    ELSE
    LET good_efficiency == NumberOf(efficiency) > 90
        l3 == log_test(l2, <<"Kaizen System Efficiency">>, PyBool(good_efficiency),
                       <<"Efficiency: ">> \o Fmt(efficiency) \o <<"%">>)
    IN
    Return(PyAnd(is_active, PyAnd(PyBool(cycles_running), PyBool(good_efficiency))),
           l3, c1)

validate_infinity_sovereign ==
    LET health_result == test_api_endpoint("/api/infinity/health", 200)
        c1 == <<"/api/infinity/health">>
    IN
    IF health_result.raises THEN Raise(health_result.error, <<>>, c1)
    ELSE
    LET modules_result == test_api_endpoint("/api/infinity/modules", 200)
        c2 == Append(c1, "/api/infinity/modules")
    IN
    IF modules_result.raises THEN Raise(modules_result.error, <<>>, c2)
    ELSE
    LET health_accessible == health_result.success
        modules_accessible == modules_result.success
        l1 == log_test(<<>>, <<"Infinity Health Access">>, PyBool(health_accessible), <<>>)
        l2 == log_test(l1, <<"Infinity Modules Access">>, PyBool(modules_accessible), <<>>)
    IN
    IF health_accessible /\ BodyTruthy(health_result.data)
    THEN
        LET health_data == health_result.data IN
        IF health_data.t # "dict"
        THEN Raise("AttributeError", l2, c2)
        ELSE
        LET overall_health == get(health_data, "overallHealth", PyInt(0)) IN
        IF ~IsNumber(overall_health)
        THEN Raise("TypeError", l2, c2)
        ELSE
        LET good_health == NumberOf(overall_health) > 90
            l3 == log_test(l2, <<"System Health Status">>, PyBool(good_health),
                           <<"Health: ">> \o Fmt(overall_health) \o <<"%">>)
            security_status == get(health_data, "securityStatus", PyStr(<<"unknown">>))
            good_security == security_status \in {PyStr(<<"excellent">>), PyStr(<<"good">>)}
            l4 == log_test(l3, <<"Security Status">>, PyBool(good_security),
                           <<"Security: ">> \o Fmt(security_status))
        IN
        Return(PyAnd(PyBool(good_health), PyBool(good_security)), l4, c2)
    ELSE
        Return(PyAnd(PyBool(health_accessible), PyBool(modules_accessible)), l2, c2)

validate_market_intelligence ==
    LET summary_result == test_api_endpoint("/api/market/summary", 200)
        c1 == <<"/api/market/summary">>
    IN
    IF summary_result.raises THEN Raise(summary_result.error, <<>>, c1)
    ELSE
    LET alerts_result == test_api_endpoint("/api/market/alerts", 200)
        c2 == Append(c1, "/api/market/alerts")
    IN
    IF alerts_result.raises THEN Raise(alerts_result.error, <<>>, c2)
    ELSE
    LET summary_accessible == summary_result.success
        alerts_accessible == alerts_result.success
        l1 == log_test(<<>>, <<"Market Summary Access">>, PyBool(summary_accessible), <<>>)
        l2 == log_test(l1, <<"Market Alerts Access">>, PyBool(alerts_accessible), <<>>)
    IN
    IF summary_accessible /\ BodyTruthy(summary_result.data)
    THEN
        LET summary_data == summary_result.data IN
        IF summary_data.t # "dict"
        THEN Raise("AttributeError", l2, c2)
        ELSE
        LET data_points == get(summary_data, "totalDataPoints", PyInt(0))
            sources == get(summary_data, "activeSources", PyList(0))
        IN
        IF ~IsSized(sources) \/ ~IsNumber(data_points)
        THEN Raise("TypeError", l2, c2)
        ELSE
        LET active_sources == PyLen(sources)
            has_data == NumberOf(data_points) > 0
            has_sources == active_sources > 0
            l3 == log_test(l2, <<"Market Data Collection">>, PyBool(has_data),
                           <<"Data points: ">> \o Fmt(data_points))
            l4 == log_test(l3, <<"Market Data Sources">>, PyBool(has_sources),
                           <<"Active sources: ", ToString(active_sources)>>)
        IN
        Return(PyAnd(PyBool(has_data), PyBool(has_sources)), l4, c2)
    ELSE
        Return(PyAnd(PyBool(summary_accessible), PyBool(alerts_accessible)), l2, c2)

validate_ui_readiness ==
    LET dashboard_result == test_api_endpoint("/", 200)
        c1 == <<"/">>
    IN
    IF dashboard_result.raises THEN Raise(dashboard_result.error, <<>>, c1)
    ELSE
    LET dashboard_accessible == dashboard_result.success
        l1 == log_test(<<>>, <<"Dashboard UI Access">>, PyBool(dashboard_accessible), <<>>)
        websocket_configured == TRUE
        l2 == log_test(l1, <<"WebSocket Configuration">>, PyBool(websocket_configured), <<>>)
    IN
    Return(PyAnd(PyBool(dashboard_accessible), PyBool(websocket_configured)), l2, c1)

\* The `tests` list of run_comprehensive_validation: the names, in order.
tests ==
    <<"Dashboard Modules", "Watson Command Engine", "KaizenGPT Agent",
      "Infinity Sovereign", "Market Intelligence", "UI Readiness">>

\* The `tests` list: the routine of each name.
test_func(test_name) ==
    CASE test_name = "Dashboard Modules"     -> validate_dashboard_modules
      [] test_name = "Watson Command Engine" -> validate_watson_command_engine
      [] test_name = "KaizenGPT Agent"       -> validate_kaizen_agent
      [] test_name = "Infinity Sovereign"    -> validate_infinity_sovereign
      [] test_name = "Market Intelligence"   -> validate_market_intelligence
      [] test_name = "UI Readiness"          -> validate_ui_readiness

\* A faulty variant of the count: only the entries whose `passed` is the
\* bool True are counted.
RECURSIVE CountPassed_TrueOnly(_)
CountPassed_TrueOnly(log) ==
    IF log = <<>> THEN 0
    ELSE (IF Head(log).passed = PyTrue THEN 1 ELSE 0) + CountPassed_TrueOnly(Tail(log))

\* passed_tests = sum(1 for r in self.test_results if r["passed"])
RECURSIVE CountPassed(_)
CountPassed(log) ==
    IF log = <<>> THEN 0
    ELSE (IF Truthy(Head(log).passed) THEN 1 ELSE 0) + CountPassed(Tail(log))

\* (passed_tests / total_tests) * 100 if total_tests > 0 else 0, as the exact
\* fraction num/den.
SuccessRate(passed_tests, total_tests) ==
    IF total_tests > 0
    THEN [num |-> passed_tests * 100, den |-> total_tests]
    ELSE [num |-> 0, den |-> 1]

\* The dict run_comprehensive_validation returns.  Its "test_details" is the
\* list self.test_results itself, not a copy: see test_details below.
ValidationReport ==
    LET passed_tests == CountPassed(test_results)
        total_tests  == Len(test_results)
    IN [overall_success |-> overall_success,
        success_rate |-> SuccessRate(passed_tests, total_tests),
        passed_tests |-> passed_tests,
        total_tests |-> total_tests,
        results |-> results,
        fingerprint_validated |-> fingerprint_lock]

\* report["test_details"]: the validator's own list.
test_details(report) == test_results

-----------------------------------------------------------------------------
(* The program *)

TypeOK ==
    /\ caller \in {"main", "client"}
    /\ pc \in {tests[i] : i \in DOMAIN tests} \cup
             {"call", "report", "returned", "saved", "exited"}
    /\ overall_success \in BOOLEAN
    /\ file_written \in BOOLEAN
    /\ exit_code \in 0..3
    /\ Len(reports) <= MaxRuns

\* The state after NEXUSUnlockValidator() was constructed; exit_code means
\* something once pc = "exited".
Started(s, c) ==
    /\ server = s
    /\ caller = c
    /\ pc = "call"
    /\ test_results = <<>>
    /\ results = <<>>
    /\ overall_success = TRUE
    /\ raised = {}
    /\ reports = <<>>
    /\ caught = ""
    /\ file_written = FALSE
    /\ exit_code = 0

Init == \E s \in Servers, c \in {"main", "client"} : Started(s, c)

InitSweep == \E s \in SweepServers : Started(s, "client")

\* The name after tests[i] in `tests`, "report" after the last.
After(test_name) ==
    LET i == CHOOSE j \in DOMAIN tests : tests[j] = test_name IN
    IF i < Len(tests) THEN tests[i + 1] ELSE "report"

\* run_comprehensive_validation up to the loop: called by main, or by a
\* client, again on the same instance.
RunComprehensiveValidation ==
    /\ \/ pc = "call"
       \/ pc = "returned" /\ caller = "client" /\ Len(reports) < MaxRuns
    /\ results' = <<>>
    /\ overall_success' = TRUE
    /\ raised' = {}
    /\ pc' = tests[1]
    /\ UNCHANGED <<server, caller, test_results, reports, caught, file_written, exit_code>>

\* A faulty variant of the loop body: the exception of a routine leaves
\* the loop, and the later routines are not run.
RunTest_Propagate(test_name) ==
    /\ pc = test_name
    /\ \E out \in {test_func(test_name)} :
          /\ test_results' = test_results \o out.log
          /\ IF out.raises
             THEN /\ results' = results
                  /\ overall_success' = FALSE
                  /\ raised' = raised \cup {test_name}
                  /\ pc' = "report"
             ELSE /\ results' = (test_name :> out.ret) @@ results
                  /\ overall_success' = (overall_success /\ Truthy(out.ret))
                  /\ raised' = raised
                  /\ pc' = After(test_name)
    /\ UNCHANGED <<server, caller, reports, caught, file_written, exit_code>>

\* A faulty variant of the loop body: the except branch leaves
\* overall_success as it is.
RunTest_KeepsSuccess(test_name) ==
    /\ pc = test_name
    /\ \E out \in {test_func(test_name)} :
          IF out.raises
          THEN /\ results' = (test_name :> PyFalse) @@ results
               /\ overall_success' = overall_success
               /\ raised' = raised \cup {test_name}
               /\ test_results' =
                      log_test(test_results \o out.log, <<test_name, " Exception">>,
                               PyFalse, <<out.exc>>)
          ELSE /\ results' = (test_name :> out.ret) @@ results
               /\ overall_success' = (overall_success /\ Truthy(out.ret))
               /\ raised' = raised
               /\ test_results' = test_results \o out.log
    /\ pc' = After(test_name)
    /\ UNCHANGED <<server, caller, reports, caught, file_written, exit_code>>

\* One turn of the loop of run_comprehensive_validation: the try and its
\* except.
RunTest(test_name) ==
    /\ pc = test_name
    /\ \E out \in {test_func(test_name)} :
          IF out.raises
          THEN /\ results' = (test_name :> PyFalse) @@ results
               /\ overall_success' = FALSE
               /\ raised' = raised \cup {test_name}
               /\ test_results' =
                      log_test(test_results \o out.log, <<test_name, " Exception">>,
                               PyFalse, <<out.exc>>)
          ELSE /\ results' = (test_name :> out.ret) @@ results
               /\ overall_success' = (overall_success /\ Truthy(out.ret))
               /\ raised' = raised
               /\ test_results' = test_results \o out.log
    /\ pc' = After(test_name)
    /\ UNCHANGED <<server, caller, reports, caught, file_written, exit_code>>

ValidateDashboardModules == RunTest("Dashboard Modules")

ValidateWatsonCommandEngine == RunTest("Watson Command Engine")

ValidateKaizenAgent == RunTest("KaizenGPT Agent")

ValidateInfinitySovereign == RunTest("Infinity Sovereign")

ValidateMarketIntelligence == RunTest("Market Intelligence")

ValidateUiReadiness == RunTest("UI Readiness")

\* The end of run_comprehensive_validation: the counters and the return.
Report ==
    /\ pc = "report"
    /\ reports' = Append(reports, ValidationReport)
    /\ pc' = "returned"
    /\ UNCHANGED <<server, caller, test_results, results, overall_success, raised,
                   caught, file_written, exit_code>>

\* main: open() and json.dump(); either may fail or be interrupted.
SaveReport ==
    /\ pc = "returned"
    /\ caller = "main"
    /\ \E outcome \in {"ok", "OSError", "KeyboardInterrupt"} :
          /\ file_written' = (outcome = "ok")
          /\ pc' = IF outcome = "ok" THEN "saved" ELSE "exited"
          /\ caught' = IF outcome = "ok" THEN "" ELSE outcome
          /\ exit_code' = CASE outcome = "ok" -> exit_code
                            [] outcome = "OSError" -> 3
                            [] outcome = "KeyboardInterrupt" -> 2
    /\ UNCHANGED <<server, caller, test_results, results, overall_success, raised,
                   reports>>

\* main: sys.exit(0 if report["overall_success"] else 1)
Exit ==
    /\ pc = "saved"
    /\ exit_code' = IF reports[Len(reports)].overall_success THEN 0 ELSE 1
    /\ pc' = "exited"
    /\ UNCHANGED <<server, caller, test_results, results, overall_success, raised,
                   reports, caught, file_written>>

\* main: KeyboardInterrupt while a routine runs.  `except Exception` does
\* not catch it, so it leaves run_comprehensive_validation and main exits
\* with 2.
Interrupt ==
    /\ caller = "main"
    /\ pc \in {tests[i] : i \in DOMAIN tests}
    /\ caught' = "KeyboardInterrupt"
    /\ exit_code' = 2
    /\ pc' = "exited"
    /\ UNCHANGED <<server, caller, test_results, results, overall_success, raised,
                   reports, file_written>>

Next ==
    \/ RunComprehensiveValidation
    \/ ValidateDashboardModules
    \/ ValidateWatsonCommandEngine
    \/ ValidateKaizenAgent
    \/ ValidateInfinitySovereign
    \/ ValidateMarketIntelligence
    \/ ValidateUiReadiness
    \/ Report
    \/ SaveReport
    \/ Exit
    \/ Interrupt

Spec == Init /\ [][Next]_vars

NextSweep == RunComprehensiveValidation \/ ValidateDashboardModules

\* The module-access sweep alone, over every set of failing paths.
SpecSweep == InitSweep /\ [][NextSweep]_vars

-----------------------------------------------------------------------------
(* Properties *)

Tests == {tests[i] : i \in DOMAIN tests}

\* The last report returned.
LastReport == reports[Len(reports)]

\* The positions in test_results of the entries the returned call logged.
CallEntries ==
    IF Len(reports) >= 2
    THEN (reports[Len(reports) - 1].total_tests + 1)..Len(test_results)
    ELSE 1..Len(test_results)

\* The GET of p fails in transport, or its 200 body is no JSON.
FailsToFetch(p) ==
    \/ Answer(p).kind = "exc"
    \/ Answer(p).status_code = 200 /\ Answer(p).body.t = "notjson"

FailureText(p) == IF Answer(p).kind = "exc" THEN Answer(p).error ELSE "JSONDecodeError"

IsExceptionEntry(e) == Len(e.test) = 2 /\ e.test[2] = " Exception"

\* C1: whatever exception the GET of a path or the parsing of its response
\* raises, test_api_endpoint does not raise: it returns success = False,
\* data = None and the exception text in "error"; a category routine that
\* requested the path logs a failed TestResult and does not raise that
\* exception, so no "<category> Exception" entry carries its text.
C1_TransportFailureIsCaptured ==
    pc = "returned" =>
        \A p \in Paths :
            FailsToFetch(p) =>
                /\ test_api_endpoint(p, 200) = EndpointFailure(FailureText(p))
                /\ \A t \in Tests :
                      LET out == test_func(t) IN
                      (\E i \in DOMAIN out.calls : out.calls[i] = p) =>
                          /\ ~(out.raises /\ out.exc = FailureText(p))
                          /\ \E j \in DOMAIN out.log : ~Truthy(out.log[j].passed)
                /\ \A i \in DOMAIN test_results :
                      IsExceptionEntry(test_results[i]) =>
                          test_results[i].details # <<FailureText(p)>>

\* A call returned after the GET of the history path failed in transport;
\* the command-engine routine returned False without raising.
C1_Witness ==
    /\ pc = "returned"
    /\ Answer("/api/watson/history").kind = "exc"
    /\ "Watson Command Engine" \notin raised
    /\ results["Watson Command Engine"] = PyFalse

\* C2: an exception of a category routine does not leave
\* run_comprehensive_validation: the category's result is False, exactly one
\* failing "<category> Exception" TestResult carrying the exception text is
\* appended, the later categories run in the fixed order, and the returned
\* report has a result for all six.
C2_CategoryExceptionIsRecorded ==
    /\ \A t \in raised : t \in DOMAIN results /\ results[t] = PyFalse
    /\ pc \in Tests =>
          DOMAIN results =
              {tests[j] : j \in {k \in DOMAIN tests : \E m \in DOMAIN tests :
                                     k < m /\ tests[m] = pc}}
    /\ pc = "returned" =>
          /\ DOMAIN results = Tests
          /\ DOMAIN LastReport.results = Tests
          /\ \A t \in Tests :
                LET entries == {i \in CallEntries :
                                   test_results[i].test = <<t, " Exception">>}
                IN IF t \in raised
                   THEN /\ Cardinality(entries) = 1
                        /\ \A i \in entries :
                              /\ test_results[i].passed = PyFalse
                              /\ test_results[i].details = <<test_func(t).exc>>
                   ELSE entries = {}

\* A call returned although the command-engine routine raised; UI Readiness,
\* the last category, was run and passed.
C2_Witness ==
    /\ pc = "returned"
    /\ "Watson Command Engine" \in raised
    /\ results["UI Readiness"] = PyTrue

\* Every category routine returned True and none raised.
AllCategoriesTrue ==
    /\ raised = {}
    /\ DOMAIN results = Tests
    /\ \A t \in Tests : results[t] = PyTrue

\* C3: the exit code of main is 0 exactly when every category routine
\* returned True without raising, 1 when one did not, 2 when a
\* KeyboardInterrupt reached main, 3 when another exception did (the report
\* file could not be written); 0 and 1 are reached only after the report
\* file was written.
C3_ExitCodeFollowsOutcome ==
    pc = "exited" =>
        /\ exit_code \in {0, 1, 2, 3}
        /\ (exit_code = 0) <=> (caught = "" /\ AllCategoriesTrue)
        /\ (exit_code = 1) <=> (caught = "" /\ ~AllCategoriesTrue)
        /\ (exit_code = 2) <=> (caught = "KeyboardInterrupt")
        /\ (exit_code = 3) <=> (caught \notin {"", "KeyboardInterrupt"})
        /\ exit_code \in {0, 1} =>
              /\ file_written
              /\ Len(reports) = 1
              /\ LastReport.overall_success = (exit_code = 0)

\* main exited with 0.
C3_Witness == pc = "exited" /\ exit_code = 0 /\ file_written

\* C4: the returned report has total_tests = the number of entries of
\* test_details, passed_tests = the number of those whose `passed` is true,
\* success_rate = passed_tests / total_tests * 100 (0 when there is none),
\* and 0 <= passed_tests <= total_tests.
C4_ReportCountersMatchDetails ==
    pc = "returned" =>
        LET report == LastReport
            details == test_details(report)
            passing == {i \in DOMAIN details : Truthy(details[i].passed)}
        IN /\ report.total_tests = Len(details)
           /\ report.passed_tests = Cardinality(passing)
           /\ IF report.total_tests = 0
              THEN report.success_rate.num = 0
              ELSE report.success_rate.num * report.total_tests =
                       report.passed_tests * 100 * report.success_rate.den
           /\ 0 <= report.passed_tests
           /\ report.passed_tests <= report.total_tests

\* A second call on the same instance returned, with failed and passed
\* entries in the list.
C4_Witness ==
    /\ pc = "returned"
    /\ Len(reports) = 2
    /\ 0 < LastReport.passed_tests
    /\ LastReport.passed_tests < LastReport.total_tests

\* C5: two successive calls of run_comprehensive_validation against the same
\* server, on the same instance, return reports with the same
\* overall_success, passed_tests and total_tests.
C5_RepeatedRunsAgree ==
    Len(reports) >= 2 =>
        /\ reports[2].overall_success = reports[1].overall_success
        /\ reports[2].passed_tests = reports[1].passed_tests
        /\ reports[2].total_tests = reports[1].total_tests

\* The module paths whose endpoint check has success = True.
AccessibleModules ==
    {i \in DOMAIN modules : test_api_endpoint(modules[i], 200).success}

\* C6: validate_dashboard_modules returns True iff at least 12 of the 14
\* endpoint checks succeed, which is iff at least 80% of them do, and the
\* summary TestResult "Dashboard Module Access" has `passed` equal to the
\* returned value.
C6_DashboardPassesFrom12Of14 ==
    pc = "Watson Command Engine" =>
        LET n == Cardinality(AccessibleModules)
            summary == test_results[Len(test_results)]
        IN /\ Len(modules) = 14
           /\ "Dashboard Modules" \notin raised
           /\ results["Dashboard Modules"] = PyBool(n >= 12)
           /\ (n >= 12) <=> (n * 100 >= 80 * Len(modules))
           /\ summary.test = <<"Dashboard Module Access">>
           /\ summary.passed = results["Dashboard Modules"]

\* The sweep ended with exactly 11 of the 14 paths accessible and returned
\* False.
C6_Witness ==
    /\ pc = "Watson Command Engine"
    /\ Cardinality(AccessibleModules) = 11
    /\ results["Dashboard Modules"] = PyFalse

\* The server answers p with a status of 200.
Status200(p) == Answer(p).kind = "resp" /\ Answer(p).status_code = 200

\* C7: whatever the body of the response, test_api_endpoint(path, 200) has
\* success = True iff the status is 200, and data is None unless the status
\* is 200.
C7_SuccessIffStatus200 ==
    pc = "returned" =>
        \A p \in Paths :
            Answer(p).kind = "resp" =>
                LET r == test_api_endpoint(p, 200) IN
                /\ r.success <=> (Answer(p).status_code = 200)
                /\ Answer(p).status_code # 200 => r.data = NoneBody

\* The state path answers 200 with an object.
StateObject == Status200(StateUrl) /\ Answer(StateUrl).body.t = "dict"

MemoryAwareIs(V) == StateObject /\ get(Answer(StateUrl).body, "isMemoryAware", Absent) \in V

\* fingerprintLock is a string that contains one of the accepted literals.
FingerprintAccepted ==
    /\ StateObject
    /\ LET f == get(Answer(StateUrl).body, "fingerprintLock", Absent) IN
       f.t = "str" /\ \E fp \in expected_fingerprints : Contains(fp, f.s)

\* fingerprintLock is absent or a string that contains neither literal.
FingerprintRejected ==
    /\ StateObject
    /\ LET f == get(Answer(StateUrl).body, "fingerprintLock", PyStr(<<>>)) IN
       f.t = "str" /\ \A fp \in expected_fingerprints : ~Contains(fp, f.s)

\* C8: validate_watson_command_engine returns True when the state path
\* answers 200 with isMemoryAware = true and an accepted fingerprintLock and
\* the visual-state and history paths answer 200; it does not when any one
\* of these conditions is false.
C8_WatsonTrueIffAllConditions ==
    "Watson Command Engine" \in DOMAIN results =>
        LET ret == results["Watson Command Engine"] IN
        /\ ( /\ MemoryAwareIs({PyTrue})
             /\ FingerprintAccepted
             /\ Status200("/api/watson/visual-state")
             /\ Status200("/api/watson/history") ) => ret = PyTrue
        /\ ~Status200(StateUrl) => ret # PyTrue
        /\ MemoryAwareIs({PyFalse, Absent}) => ret # PyTrue
        /\ FingerprintRejected => ret # PyTrue
        /\ ~Status200("/api/watson/visual-state") => ret # PyTrue
        /\ ~Status200("/api/watson/history") => ret # PyTrue

\* C8 with "the endpoint check succeeds" in the place of "answers 200".
C8_WatsonTrueIffAllChecksSucceed ==
    "Watson Command Engine" \in DOMAIN results =>
        LET ret == results["Watson Command Engine"]
            accessible(p) == test_api_endpoint(p, 200).success
        IN
        /\ ( /\ accessible(StateUrl)
             /\ MemoryAwareIs({PyTrue})
             /\ FingerprintAccepted
             /\ accessible("/api/watson/visual-state")
             /\ accessible("/api/watson/history") ) => ret = PyTrue
        /\ ~accessible(StateUrl) => ret # PyTrue
        /\ MemoryAwareIs({PyFalse, Absent}) => ret # PyTrue
        /\ FingerprintRejected => ret # PyTrue
        /\ ~accessible("/api/watson/visual-state") => ret # PyTrue
        /\ ~accessible("/api/watson/history") => ret # PyTrue

\* The keys a routine reads from the object of a path, each with the
\* sub-check logged for it.
CheckedKeys ==
    {[test |-> "Watson Command Engine", path |-> StateUrl,
      key |-> "isMemoryAware", check |-> "Watson Memory Awareness"],
     [test |-> "Watson Command Engine", path |-> StateUrl,
      key |-> "fingerprintLock", check |-> "Watson Fingerprint Lock"],
     [test |-> "KaizenGPT Agent", path |-> MetricsUrl,
      key |-> "isActive", check |-> "Kaizen Agent Active"],
     [test |-> "KaizenGPT Agent", path |-> MetricsUrl,
      key |-> "optimizationCycles", check |-> "Kaizen Optimization Cycles"],
     [test |-> "KaizenGPT Agent", path |-> MetricsUrl,
      key |-> "currentEfficiency", check |-> "Kaizen System Efficiency"],
     [test |-> "Infinity Sovereign", path |-> HealthUrl,
      key |-> "overallHealth", check |-> "System Health Status"],
     [test |-> "Infinity Sovereign", path |-> HealthUrl,
      key |-> "securityStatus", check |-> "Security Status"],
     [test |-> "Market Intelligence", path |-> SummaryUrl,
      key |-> "totalDataPoints", check |-> "Market Data Collection"],
     [test |-> "Market Intelligence", path |-> SummaryUrl,
      key |-> "activeSources", check |-> "Market Data Sources"]}

\* C9: when a path answers 200 with an object that lacks a checked key, the
\* routine raises nothing, logs the key's sub-check as failed and returns a
\* false value.
C9_MissingKeyFailsTheCheck ==
    pc = "returned" =>
        \A c \in CheckedKeys :
            ( /\ Status200(c.path)
              /\ Answer(c.path).body.t = "dict"
              /\ c.key \notin DOMAIN Answer(c.path).body.f ) =>
                /\ c.test \notin raised
                /\ ~Truthy(results[c.test])
                /\ \E i \in CallEntries :
                      /\ test_results[i].test = <<c.check>>
                      /\ ~Truthy(test_results[i].passed)

\* C10: the command-engine routine and the market routine return True iff
\* every TestResult they logged in the call has a true `passed`.
C10_ReturnIsAndOfLoggedChecks ==
    pc = "returned" =>
        \A t \in {"Watson Command Engine", "Market Intelligence"} :
            t \notin raised =>
                ( results[t] = PyTrue <=>
                  \A j \in DOMAIN test_func(t).log : Truthy(test_func(t).log[j].passed) )

====
